---- MODULE Spec2Model ----
(***************************************************************************)
(* Window lifecycle of baseview (Windows and macOS adapters).              *)
(*                                                                         *)
(* One window is modelled from the call of Window::open (Windows) or        *)
(* Window::open_* and Window::init (macOS), in which a resource creation   *)
(* may fail, until it is torn down.  All code runs on the one thread       *)
(* that owns the window.  A handler call (on_event / on_frame) is a state  *)
(* of its own (active # "none"): while it is in progress the handler may   *)
(* call Window::close() and, on Windows, further messages may reach        *)
(* wnd_proc (nested delivery).  WindowHandle operations are made by the    *)
(* embedder between callbacks.  On macOS callbacks are delivered from the  *)
(* run loop only (see the comment at WindowState::from_field).             *)
(*                                                                         *)
(* A fault (a Rust panic inside the extern "system" wnd_proc, a null or    *)
(* dangling dereference) ends the process: no action is enabled after it.  *)
(***************************************************************************)
EXTENDS Integers, Sequences, FiniteSets, TLC

VARIABLES
    platform,       \* "win" or "mac": which adapter is compiled in
    parented,       \* open_parented / open_as_if_parented (TRUE) or open_blocking
    opened,         \* Window::open / Window::init has bound the slot and returned
    slot,           \* association slot: GWLP_USERDATA / BASEVIEW_STATE_IVAR
    stateAlloc,     \* the Window State block is allocated (not yet freed)
    borrow,         \* RefCell<WindowState> borrow flag (Windows)
    handle_raw,     \* WindowHandle.hwnd / WindowHandle.raw_window_handle is Some
    is_open_flag,   \* the shared Arc<AtomicBool> is_open
    handle_close_requested, \* WindowHandle.close_requested (macOS)
    close_requested,\* Window.close_requested (macOS)
    ns_window,      \* Window.ns_window is Some (macOS)
    ns_app,         \* Window.ns_app is Some (macOS)
    app_stopped,    \* NSApplication stop: was called
    frame_timer,    \* the frame timer is armed
    posted,         \* BV_WINDOW_MUST_CLOSE messages waiting in the queue (Windows)
    nativeAlive,    \* the native window (HWND) / view (NSView) exists
    window_class,   \* the window class is registered (Windows)
    active,         \* the handler call in progress, "none" between callbacks
    willClose,      \* number of WillClose events the handler has received
    teardowns,      \* number of times the close protocol has started
    destroyCalls,   \* DestroyWindow calls made by the BV_WINDOW_MUST_CLOSE branch
    frees,          \* number of times the Window State block was freed
    closeCalls,     \* number of WindowHandle::close() calls made so far
    call,           \* the last WindowHandle operation and what it did
    frameSeen,      \* on_frame has been called at least once
    lateCallback,   \* a native callback arrived after the slot was cleared
    staleAccess,    \* a native callback touched Window State after clear / free
    handlerClosed,  \* the handler called Window::close() on the running window
    returned,       \* Window::open_blocking has returned to its caller
    mouse_button_counter, \* WindowState.mouse_button_counter (Windows)
    captured, \* the window holds the pointer capture (SetCapture)
    buttonsDown, \* the mouse buttons physically held down
    releaseCalls, \* number of ReleaseCapture calls made
    scale_policy, \* WindowOpenOptions.scale / WindowState.scale_policy
    options_size, \* WindowOpenOptions.size, in logical pixels
    system_dpi, \* DPI of the monitor (96 * backingScaleFactor on macOS)
    view_in_window, \* [ns_view window] is not nil (macOS)
    window_info, \* WindowState.window_info (Windows)
    client, \* client-area size of the native window, in physical pixels
    setPos, \* size asked for by the last SetWindowPos call
    lastResized, \* WindowInfo carried by the last Resized event
    handler_bound, \* the handler built by the builder is owned by a Window State
    open_failure, \* the resource creation that failed in Window::open, or none
    event, \* the event of the on_event call in progress (or of the last one)
    timerBeforeSlot, \* the frame timer was armed while the slot of the live window was null
    earlyDispatch, \* a message that arrived before the slot was bound reached the handler
    key, \* the last keyboard message: what the collaborator returned, whether DefWindowProcW ran
    cursor, \* the native cursor position and the position of the last CursorMoved
    log, \* the notifications delivered to wnd_proc and the events the handler received
    inner, \* the handler call made through a second reference while another is in progress
    fault           \* "none", or the fault that ended the process

vars == <<platform, parented, opened, slot, stateAlloc, borrow, handle_raw,
          is_open_flag, handle_close_requested, close_requested, ns_window,
          ns_app, app_stopped, frame_timer, posted, nativeAlive, window_class,
          active, willClose, teardowns, destroyCalls, frees, closeCalls, call,
          frameSeen, lateCallback, staleAccess, handlerClosed, returned,
          mouse_button_counter,
          captured,
          buttonsDown,
          releaseCalls,
          scale_policy,
          options_size,
          system_dpi,
          view_in_window,
          window_info,
          client,
          setPos,
          lastResized,
          handler_bound,
          open_failure,
          event,
          timerBeforeSlot,
          earlyDispatch,
          key,
          cursor,
          log,
          inner,
          fault>>

\* ---------------------------------------------------------------- bounds
MaxPosted == 2
MaxCloseCalls == 3
MaxButtonCounter == 5
MaxReleaseCalls == 2
\* The record keeps the first MaxNotes notifications and their events.
MaxNotes == 4

\* ------------------------------------------------------------- constants
NULL == "null"
PTR == "ptr"

Platforms == {"win", "mac"}

\* Messages the environment delivers to wnd_proc.
InputMessages == {"WM_MOUSEMOVE", "WM_TIMER", "WM_CLOSE"}

\* The mouse buttons the adapter distinguishes.
Buttons == {"Left", "Middle", "Right", "Back", "Forward"}

ButtonDownMessages ==
    {"WM_LBUTTONDOWN", "WM_MBUTTONDOWN", "WM_RBUTTONDOWN", "WM_XBUTTONDOWN"}

ButtonUpMessages ==
    {"WM_LBUTTONUP", "WM_MBUTTONUP", "WM_RBUTTONUP", "WM_XBUTTONUP"}

\* The X button identifiers carried in the high word of wparam.
XBUTTON1 == 1
XBUTTON2 == 2

\* Scale factors are kept as DPI values (scale = dpi / 96.0) and logical
\* lengths in sixths of a pixel, so that physical / scale is exact for the
\* DPI values used here.
Dpis == {96, 144, 192}

SystemScaleFactor == [kind |-> "SystemScaleFactor", scale |-> 96]

\* WindowScalePolicy: track the system DPI, or a fixed factor (here 1.5).
ScalePolicies == {SystemScaleFactor, [kind |-> "ScaleFactor", scale |-> 144]}

\* Sizes the application asks for (logical pixels).
LogicalSizes == {<<2, 1>>, <<3, 3>>}

\* Client sizes the user or host gives the window (physical pixels).
PhysicalSizes == {<<3, 2>>, <<4, 4>>, <<40000, 2>>}

\* The keyboard messages of wnd_proc.
KeyMessages ==
    {"WM_CHAR", "WM_SYSCHAR", "WM_KEYDOWN", "WM_SYSKEYDOWN", "WM_KEYUP",
     "WM_SYSKEYUP", "WM_INPUTLANGCHANGE"}

\* No keyboard message seen yet.
NoKey == [msg |-> "none", some |-> FALSE, def |-> FALSE]

\* Cursor positions in physical pixels, relative to the client area; a
\* captured cursor left of or above the window has a negative x or y.
CursorPositions == {<<0, 0>>, <<3, 6>>, <<-3, 1>>, <<2, -3>>}

\* No cursor position seen yet.
NoCursor == [native |-> <<0, 0>>, logical |-> <<0, 0>>]

\* The record of notifications and events: off, and on with nothing recorded.
\* `cur` is the index in `notes` of the wnd_proc activation that is running
\* (0: none, or one that was not recorded).
LogOff == [on |-> FALSE, notes |-> <<>>, events |-> <<>>, cur |-> 0]
LogOn == [LogOff EXCEPT !.on = TRUE]

\* No WindowInfo (no state built yet, no Resized event seen yet).
NoInfo == [logical |-> <<0, 0>>, physical |-> <<0, 0>>, scale |-> 0]

NoCall == [op |-> "none", n |-> 0, open |-> TRUE, gone |-> FALSE,
           native |-> FALSE, deref |-> FALSE, handler |-> FALSE,
           panic |-> FALSE, size |-> <<0, 0>>]

\* The whole program state as one record, so that the synchronous calls of
\* one callback (wnd_proc -> DestroyWindow -> wnd_proc) compose as functions.
S == [platform |-> platform, parented |-> parented, opened |-> opened,
      slot |-> slot, stateAlloc |-> stateAlloc, borrow |-> borrow,
      handle_raw |-> handle_raw, is_open_flag |-> is_open_flag,
      handle_close_requested |-> handle_close_requested,
      close_requested |-> close_requested, ns_window |-> ns_window,
      ns_app |-> ns_app, app_stopped |-> app_stopped,
      frame_timer |-> frame_timer, posted |-> posted,
      nativeAlive |-> nativeAlive, window_class |-> window_class,
      active |-> active, willClose |-> willClose, teardowns |-> teardowns,
      destroyCalls |-> destroyCalls, frees |-> frees,
      closeCalls |-> closeCalls, call |-> call, frameSeen |-> frameSeen,
      lateCallback |-> lateCallback, staleAccess |-> staleAccess,
      handlerClosed |-> handlerClosed, returned |-> returned,
      mouse_button_counter |-> mouse_button_counter,
      captured |-> captured,
      buttonsDown |-> buttonsDown,
      releaseCalls |-> releaseCalls,
      scale_policy |-> scale_policy,
      options_size |-> options_size,
      system_dpi |-> system_dpi,
      view_in_window |-> view_in_window,
      window_info |-> window_info,
      client |-> client,
      setPos |-> setPos,
      lastResized |-> lastResized,
      handler_bound |-> handler_bound,
      open_failure |-> open_failure,
      event |-> event,
      timerBeforeSlot |-> timerBeforeSlot,
      earlyDispatch |-> earlyDispatch,
      key |-> key,
      cursor |-> cursor,
      log |-> log,
      inner |-> inner,
      fault |-> fault]

Set(r) ==
    /\ platform' = r.platform
    /\ parented' = r.parented
    /\ opened' = r.opened
    /\ slot' = r.slot
    /\ stateAlloc' = r.stateAlloc
    /\ borrow' = r.borrow
    /\ handle_raw' = r.handle_raw
    /\ is_open_flag' = r.is_open_flag
    /\ handle_close_requested' = r.handle_close_requested
    /\ close_requested' = r.close_requested
    /\ ns_window' = r.ns_window
    /\ ns_app' = r.ns_app
    /\ app_stopped' = r.app_stopped
    /\ frame_timer' = r.frame_timer
    /\ posted' = r.posted
    /\ nativeAlive' = r.nativeAlive
    /\ window_class' = r.window_class
    /\ active' = r.active
    /\ willClose' = r.willClose
    /\ teardowns' = r.teardowns
    /\ destroyCalls' = r.destroyCalls
    /\ frees' = r.frees
    /\ closeCalls' = r.closeCalls
    /\ call' = r.call
    /\ frameSeen' = r.frameSeen
    /\ lateCallback' = r.lateCallback
    /\ staleAccess' = r.staleAccess
    /\ handlerClosed' = r.handlerClosed
    /\ returned' = r.returned
    /\ mouse_button_counter' = r.mouse_button_counter
    /\ captured' = r.captured
    /\ buttonsDown' = r.buttonsDown
    /\ releaseCalls' = r.releaseCalls
    /\ scale_policy' = r.scale_policy
    /\ options_size' = r.options_size
    /\ system_dpi' = r.system_dpi
    /\ view_in_window' = r.view_in_window
    /\ window_info' = r.window_info
    /\ client' = r.client
    /\ setPos' = r.setPos
    /\ lastResized' = r.lastResized
    /\ handler_bound' = r.handler_bound
    /\ open_failure' = r.open_failure
    /\ event' = r.event
    /\ timerBeforeSlot' = r.timerBeforeSlot
    /\ earlyDispatch' = r.earlyDispatch
    /\ key' = r.key
    /\ cursor' = r.cursor
    /\ log' = r.log
    /\ inner' = r.inner
    /\ fault' = r.fault

\* ------------------------------------------------------- small primitives

\* wnd_proc: `if !window_state_ptr.is_null()`
SlotLiveUnchecked(p) == TRUE
SlotLive(p) == p # NULL

\* RefCell::try_borrow_mut succeeds only when nothing is borrowed.
TryBorrowMut(b) == b = "none"

\* RefCell::try_borrow succeeds unless mutably borrowed.
TryBorrow(b) == b # "mut"

\* Option::take(): the value left behind in the handle.
TakeHandleKeeps(h) == h
TakeHandle(h) == FALSE

\* stop_and_free: frame_timer.take() + CFRunLoop::remove_timer
RemoveTimerKeeps(t) == t
RemoveTimer(t) == FALSE

\* A native callback dereferences the Window State pointer it holds.
Touch(s) == [s EXCEPT !.staleAccess = @ \/ s.slot = NULL \/ ~s.stateAlloc]

\* A native callback is delivered although the slot has been cleared.
Late(s) == [s EXCEPT !.lateCallback = @ \/ (s.opened /\ s.slot = NULL)]

\* Dropping the ParentHandle stored in Window State (parented windows only).
ParentHandleDrop(s) == IF s.parented THEN [s EXCEPT !.is_open_flag = FALSE] ELSE s

\* ---------------------------------------------------------- WindowInfo

\* f64::round for a non-negative quotient n / d: half rounds up.
RoundDiv(n, d) == (2 * n + d) \div (2 * d)

\* A Size in logical pixels, in sixths.
LogicalOf(size) == <<6 * size[1], 6 * size[2]>>

\* WindowInfo::from_logical_size: physical = round(logical * scale).
from_logical_size(logical, scale) ==
    [logical |-> logical,
     physical |-> <<RoundDiv(logical[1] * scale, 6 * 96),
                    RoundDiv(logical[2] * scale, 6 * 96)>>,
     scale |-> scale]

\* WindowInfo::from_physical_size: logical = physical / scale.
from_physical_size(physical, scale) ==
    [logical |-> <<(physical[1] * 6 * 96) \div scale,
                   (physical[2] * 6 * 96) \div scale>>,
     physical |-> physical,
     scale |-> scale]

\* MAKELPARAM(width, height) of WM_SIZE and the two words read back from it.
MAKELPARAM(size) == size[1] + 65536 * size[2]
LOWORD(l) == l % 65536
HIWORD(l) == (l \div 65536) % 65536

\* The lparam of a mouse message, as a signed 32-bit value: x in the low
\* word, y in the high word, each a signed 16-bit value.
MAKEPOINT(p) == (p[1] % 65536) + 65536 * p[2]

\* `as i16 as i32` of a 16-bit word.
AsI16Unsigned(w) == w
AsI16(w) == IF w >= 32768 THEN w - 65536 ELSE w

\* PhyPoint::to_logical: logical = physical / scale, in sixths.
to_logical(p, info) ==
    <<(p[1] * 6 * 96) \div info.scale, (p[2] * 6 * 96) \div info.scale>>

\* ------------------------------------------------------------ Windows

\* wnd_proc is entered for `msg`: the notification is recorded.
Note(s, msg) ==
    IF s.log.on /\ Len(s.log.notes) < MaxNotes
    THEN [s EXCEPT !.log.notes = Append(@, msg),
                   !.log.cur = Len(s.log.notes) + 1]
    ELSE [s EXCEPT !.log.cur = 0]

\* handler.on_event(&mut window, e), called by the activation `cur`.
on_event(s, e) ==
    [s EXCEPT !.event = e,
              !.log.events = IF s.log.cur > 0
                             THEN Append(@, [kind |-> e, note |-> s.log.cur])
                             ELSE @]

\* wnd_proc, WM_NCDESTROY branch (with the null check in front of the match).
\* The Box::from_raw that would free the state is commented out in the source.
WmNcDestroy(s) ==
    IF SlotLive(s.slot)
    THEN IF TryBorrow(s.borrow)
         THEN [Touch(s) EXCEPT !.window_class = FALSE, !.slot = NULL]
         ELSE s
    ELSE Late(s)

\* DestroyWindow: WM_DESTROY (default processing), then WM_NCDESTROY; the
\* window's timers and queued messages go with it.  No effect on a dead HWND.
DestroyWindow(s) ==
    IF ~s.nativeAlive
    THEN s
    ELSE [WmNcDestroy(s) EXCEPT !.nativeAlive = FALSE, !.frame_timer = FALSE,
                                 !.posted = 0, !.teardowns = @ + 1]

\* DefWindowProcW: WM_CLOSE destroys the window, everything else is inert here.
DefWindowProcW(s, msg) == IF msg = "WM_CLOSE" THEN DestroyWindow(s) ELSE s

\* WM_MOUSEMOVE: decode x and y from lparam, convert with the stored
\* window_info, dispatch CursorMoved.
WmMouseMoveUnscaled(s, lparam) ==
    IF TryBorrowMut(s.borrow)
    THEN LET x == AsI16(LOWORD(lparam))
             y == AsI16(HIWORD(lparam))
             logical_pos == to_logical(<<x, y>>,
                                       [s.window_info EXCEPT !.scale = 96])
         IN on_event([Touch(s) EXCEPT !.cursor.logical = logical_pos,
                                      !.borrow = "mut",
                                      !.active = "win_event"],
                     "CursorMoved")
    ELSE s

WmMouseMove(s, lparam) ==
    IF TryBorrowMut(s.borrow)
    THEN LET x == AsI16(LOWORD(lparam))
             y == AsI16(HIWORD(lparam))
             logical_pos == to_logical(<<x, y>>, s.window_info)
         IN on_event([Touch(s) EXCEPT !.cursor.logical = logical_pos,
                                      !.borrow = "mut",
                                      !.active = "win_event"],
                     "CursorMoved")
    ELSE s

\* WM_TIMER: try_borrow_mut, then a second borrow_mut() while the first guard
\* is alive, which panics with BorrowMutError.
WmTimer(s) ==
    IF TryBorrowMut(s.borrow)
    THEN LET held == "mut"
         IN IF TryBorrowMut(held)
            THEN [Touch(s) EXCEPT !.borrow = "mut", !.active = "win_frame",
                                  !.frameSeen = TRUE]
            ELSE [Touch(s) EXCEPT !.fault = "BorrowMutError"]
    ELSE s

\* WM_CLOSE: dispatch WillClose if the state can be borrowed; DefWindowProcW
\* follows after the handler returned (HandlerReturn) or at once if skipped.
WmClose(s) ==
    IF TryBorrowMut(s.borrow)
    THEN on_event([Touch(s) EXCEPT !.borrow = "mut", !.active = "win_close",
                                   !.willClose = @ + 1],
                  "WillClose")
    ELSE DefWindowProcW(s, "WM_CLOSE")

\* GET_XBUTTON_WPARAM: the high word of wparam.
GET_XBUTTON_WPARAM(wparam) == (wparam \div 65536) % 65536

\* The `button` match of the mouse button branch; "None" for an unknown one.
ButtonOf(msg, wparam) ==
    CASE msg \in {"WM_LBUTTONDOWN", "WM_LBUTTONUP"} -> "Left"
      [] msg \in {"WM_MBUTTONDOWN", "WM_MBUTTONUP"} -> "Middle"
      [] msg \in {"WM_RBUTTONDOWN", "WM_RBUTTONUP"} -> "Right"
      [] msg \in {"WM_XBUTTONDOWN", "WM_XBUTTONUP"} ->
            (CASE GET_XBUTTON_WPARAM(wparam) = XBUTTON1 -> "Back"
               [] GET_XBUTTON_WPARAM(wparam) = XBUTTON2 -> "Forward"
               [] OTHER -> "None")
      [] OTHER -> "None"

\* usize::saturating_add(1) / saturating_sub(1); the counter stays far below
\* usize::MAX (MaxButtonCounter).
saturating_add(n) == n + 1
saturating_sub(n) == IF n = 0 THEN 0 ELSE n - 1

\* WM_xBUTTONDOWN / WM_xBUTTONUP: count, SetCapture / ReleaseCapture, dispatch.
WmButton(s, msg, wparam) ==
    IF TryBorrowMut(s.borrow)
    THEN LET button == ButtonOf(msg, wparam)
             up == saturating_sub(s.mouse_button_counter)
         IN IF button = "None"
            THEN Touch(s)
            ELSE IF msg \in ButtonDownMessages
            THEN on_event([Touch(s) EXCEPT
                              !.mouse_button_counter = saturating_add(@),
                              !.captured = TRUE,
                              !.borrow = "mut", !.active = "win_event"],
                          "ButtonPressed")
            ELSE on_event([Touch(s) EXCEPT
                              !.mouse_button_counter = up,
                              !.captured = IF up = 0 THEN FALSE ELSE @,
                              !.releaseCalls = IF up = 0 THEN @ + 1 ELSE @,
                              !.borrow = "mut", !.active = "win_event"],
                          "ButtonReleased")
    ELSE s

\* WM_SIZE: recompute window_info from the new client size and the current
\* scale, dispatch Resized.
WmSizeOldInfo(s, lparam) ==
    IF TryBorrowMut(s.borrow)
    THEN LET info == from_physical_size(<<LOWORD(lparam), HIWORD(lparam)>>,
                                        s.window_info.scale)
         IN on_event([Touch(s) EXCEPT !.window_info = info,
                                      !.lastResized = s.window_info,
                                      !.borrow = "mut",
                                      !.active = "win_event"],
                     "Resized")
    ELSE s

WmSize(s, lparam) ==
    IF TryBorrowMut(s.borrow)
    THEN LET info == from_physical_size(<<LOWORD(lparam), HIWORD(lparam)>>,
                                        s.window_info.scale)
         IN on_event([Touch(s) EXCEPT !.window_info = info,
                                      !.lastResized = info,
                                      !.borrow = "mut",
                                      !.active = "win_event"],
                     "Resized")
    ELSE s

\* KeyboardState::process_message: Some(event) or None, as the collaborator
\* decides for the message at hand.
process_message(s) == s.key.some

\* Keyboard messages: try_borrow_mut, then a second borrow_mut() while the
\* first guard is alive (BorrowMutError); past it, on_event(Keyboard) if the
\* collaborator returned an event, and `return 0` unless WM_SYSKEYDOWN.  A
\* message that finds the state borrowed falls through to DefWindowProcW.
WmKey(s, msg) ==
    IF TryBorrowMut(s.borrow)
    THEN LET held == "mut"
         IN IF TryBorrowMut(held)
            THEN LET s1 == [Touch(s) EXCEPT
                               !.key.def = (msg = "WM_SYSKEYDOWN")]
                 IN IF process_message(s)
                    THEN on_event([s1 EXCEPT !.borrow = "mut",
                                             !.active = "win_event"],
                                  "Keyboard")
                    ELSE s1
            ELSE [Touch(s) EXCEPT !.fault = "BorrowMutError"]
    ELSE [s EXCEPT !.key.def = TRUE]

\* the `_` branch for BV_WINDOW_MUST_CLOSE
BvWindowMustClose(s) == DestroyWindow([s EXCEPT !.destroyCalls = @ + 1])

\* wnd_proc for the messages that send no further message to the window.
wnd_proc_leaf(s, msg, wparam, lparam) ==
    LET s1 == Note(s, msg)
        done == IF SlotLive(s.slot)
                THEN CASE msg = "WM_SIZE" -> WmSize(s1, lparam)
                       [] OTHER -> s1
                ELSE Late(s1)
    IN [done EXCEPT !.log.cur = s.log.cur]

\* SetWindowPos: the size is recorded; if the client area changes, WM_SIZE is
\* sent to the window procedure before the call returns.
SetWindowPos(s, size) ==
    LET s1 == [s EXCEPT !.setPos = size, !.client = size]
    IN IF s.client = size
       THEN s1
       ELSE wnd_proc_leaf(s1, "WM_SIZE", 0, MAKELPARAM(size))

\* WM_DPICHANGED: with SystemScaleFactor, recompute window_info at the same
\* logical size and ask for a window of the new physical size.  The RefMut
\* is alive until the end of the branch, SetWindowPos included.
WmDpiChangedNoStore(s, wparam) ==
    IF TryBorrowMut(s.borrow)
    THEN IF s.scale_policy.kind = "SystemScaleFactor"
         THEN LET dpi == LOWORD(wparam)
                  info == from_logical_size(s.window_info.logical, dpi)
                  held == [Touch(s) EXCEPT !.borrow = "mut"]
                  done == SetWindowPos(held, info.physical)
              IN [done EXCEPT !.borrow = "none"]
         ELSE Touch(s)
    ELSE s

\* A branch that drops the RefMut before SetWindowPos and announces the new
\* size itself afterwards.
WmDpiChangedAnnounces(s, wparam) ==
    IF TryBorrowMut(s.borrow)
    THEN IF s.scale_policy.kind = "SystemScaleFactor"
         THEN LET dpi == LOWORD(wparam)
                  info == from_logical_size(s.window_info.logical, dpi)
                  freed == [Touch(s) EXCEPT !.window_info = info]
                  done == SetWindowPos(freed, info.physical)
              IN on_event([done EXCEPT !.borrow = "mut",
                                       !.active = "win_event"],
                          "Resized")
         ELSE Touch(s)
    ELSE s

\* A branch that rescales whatever the scale policy is.
WmDpiChangedAnyPolicy(s, wparam) ==
    IF TryBorrowMut(s.borrow)
    THEN LET dpi == LOWORD(wparam)
             info == from_logical_size(s.window_info.logical, dpi)
             held == [Touch(s) EXCEPT !.window_info = info,
                                      !.borrow = "mut"]
             done == SetWindowPos(held, info.physical)
         IN [done EXCEPT !.borrow = "none"]
    ELSE s

WmDpiChanged(s, wparam) ==
    IF TryBorrowMut(s.borrow)
    THEN IF s.scale_policy.kind = "SystemScaleFactor"
         THEN LET dpi == LOWORD(wparam)
                  info == from_logical_size(s.window_info.logical, dpi)
                  held == [Touch(s) EXCEPT !.window_info = info,
                                           !.borrow = "mut"]
                  done == SetWindowPos(held, info.physical)
              IN [done EXCEPT !.borrow = "none"]
         ELSE Touch(s)
    ELSE s

wnd_proc(s, msg, wparam, lparam) ==
    LET s1 == Note(s, msg)
        done ==
            IF SlotLive(s.slot)
            THEN CASE msg = "WM_MOUSEMOVE" -> WmMouseMove(s1, lparam)
                   [] msg = "WM_SIZE" -> WmSize(s1, lparam)
                   [] msg = "WM_DPICHANGED" -> WmDpiChanged(s1, wparam)
                   [] msg \in ButtonDownMessages \cup ButtonUpMessages ->
                         WmButton(s1, msg, wparam)
                   [] msg = "WM_TIMER" -> WmTimer(s1)
                   [] msg \in KeyMessages -> WmKey(s1, msg)
                   [] msg = "WM_CLOSE" -> WmClose(s1)
                   [] msg = "BV_WINDOW_MUST_CLOSE" -> BvWindowMustClose(s1)
                   [] OTHER -> DefWindowProcW(s1, msg)
            ELSE DefWindowProcW(Late(s1), msg)
    IN [done EXCEPT !.log.cur = s.log.cur]

\* The two calls that end the construction: SetWindowLongPtrW / set_ivar
\* binds the slot (no effect on a null HWND), SetTimer / setup_timer arms the
\* frame timer (a thread timer for a null HWND).
open_stage(s, stage) ==
    CASE stage = "slot" ->
            [s EXCEPT !.slot = IF s.nativeAlive THEN PTR ELSE NULL]
      [] stage = "timer" ->
            [s EXCEPT !.frame_timer = TRUE,
                      !.timerBeforeSlot = @ \/ (s.nativeAlive /\ s.slot = NULL)]

\* The order of the two calls in Window::open.
OpenOrderTimerFirst == <<"timer", "slot">>
OpenOrder == <<"slot", "timer">>

\* The order of the two calls in Window::init (macOS).
InitOrder == <<"slot", "timer">>

\* CreateWindowExW sends WM_CREATE (answered at once) and WM_SIZE to wnd_proc
\* before it returns; the slot is still null.
CreateWindowExW(s) ==
    LET s1 == wnd_proc_leaf(s, "WM_SIZE", 0, MAKELPARAM(s.client))
    IN [s1 EXCEPT !.earlyDispatch = @ \/ s1.active # "none"]

\* Window::open.  The results of register_wnd_class and CreateWindowExW are
\* not looked at; GlContext::create(..).expect panics.  Then: the handler is
\* built, Window State is boxed, window_info is rescaled to the window's DPI
\* under SystemScaleFactor (GetDpiForWindow gives 0 for a null HWND), the
\* slot is set (no effect on a null HWND), SetTimer arms a timer (a thread
\* timer for a null HWND), SetWindowPos brings the window to the new size.
open(s, failure) ==
    LET class == failure # "register_class"
        hwnd == class /\ failure # "create_window"
        scaling == IF s.scale_policy.kind = "SystemScaleFactor"
                   THEN 96 ELSE s.scale_policy.scale
        info0 == from_logical_size(LogicalOf(s.options_size), scaling)
        dpi == IF hwnd THEN s.system_dpi ELSE 0
        rescale == /\ s.scale_policy.kind = "SystemScaleFactor"
                   /\ info0.scale # dpi
        info == IF rescale
                THEN from_logical_size(info0.logical, dpi)
                ELSE info0
        c0 == [s EXCEPT !.open_failure = failure, !.window_class = class,
                        !.nativeAlive = hwnd,
                        !.client = IF hwnd THEN info0.physical ELSE @]
        s0 == IF hwnd THEN CreateWindowExW(c0) ELSE c0
        s1 == [s0 EXCEPT !.handler_bound = TRUE, !.stateAlloc = TRUE,
                         !.window_info = info]
        s2 == open_stage(open_stage(s1, OpenOrder[1]), OpenOrder[2])
        s3 == [s2 EXCEPT !.opened = hwnd]
    IN IF failure = "gl_context"
       THEN [s0 EXCEPT !.fault = "gl_context_expect"]
       ELSE IF rescale /\ hwnd THEN SetWindowPos(s3, info.physical) ELSE s3

\* ------------------------------------------------------------- macOS

\* Window::open_* and Window::init: the view is created, create_gl_context
\* panics on failure (.expect); then the handler is built, Window State is
\* boxed, the slot is bound and the frame timer armed.
init(s, failure) ==
    LET s0 == [s EXCEPT !.open_failure = failure, !.nativeAlive = TRUE]
    IN IF failure = "gl_context"
       THEN [s0 EXCEPT !.fault = "gl_context_expect"]
       ELSE LET s1 == [s0 EXCEPT !.handler_bound = TRUE,
                                 !.stateAlloc = TRUE]
                s2 == open_stage(open_stage(s1, InitOrder[1]), InitOrder[2])
            IN [s2 EXCEPT !.opened = TRUE]

\* WindowHandle::resize: 1.0 when the view is in no window, else the
\* window's backingScaleFactor.
resize_scale_factor_unit(s) == 96
resize_scale_factor(s) == IF ~s.view_in_window THEN 96 ELSE s.system_dpi


\* WindowState::stop_and_free up to and including the WillClose dispatch.
\* `via` names the caller, which decides what follows the handler's return.
stop_and_free_keeps_slot(s, via) ==
    IF ~s.nativeAlive
    THEN [s EXCEPT !.fault = "dangling_view"]
    ELSE IF s.slot = NULL
    THEN [s EXCEPT !.fault = "null_state"]
    ELSE [s EXCEPT !.frame_timer = RemoveTimer(@),
                   !.willClose = @ + 1, !.teardowns = @ + 1, !.active = via,
                   !.event = "WillClose"]

stop_and_free(s, via) ==
    IF ~s.nativeAlive
    THEN [s EXCEPT !.fault = "dangling_view"]
    ELSE IF s.slot = NULL
    THEN [s EXCEPT !.fault = "null_state"]
    ELSE [s EXCEPT !.frame_timer = RemoveTimer(@), !.slot = NULL,
                   !.willClose = @ + 1, !.teardowns = @ + 1, !.active = via,
                   !.event = "WillClose"]

\* stop_and_free after WillClose returned: app.stop_, then the Box is dropped.
stop_and_free_tail(s) ==
    LET s1 == [s EXCEPT !.app_stopped = @ \/ s.ns_app, !.ns_app = FALSE,
                        !.stateAlloc = FALSE, !.frees = @ + 1,
                        !.active = "none"]
    IN ParentHandleDrop(s1)

\* The view's release notification: the final teardown step runs only if the
\* association slot is still live; the view is gone afterwards.
view_release(s) ==
    IF SlotLive(s.slot)
    THEN stop_and_free(s, "mac_willclose_release")
    ELSE [Late(s) EXCEPT !.nativeAlive = FALSE, !.active = "none"]

\* timer_callback -> trigger_frame: on_frame is entered.
trigger_frame(s) == [Touch(s) EXCEPT !.active = "mac_frame", !.frameSeen = TRUE]

\* WindowHandle::resize after trigger_event(Resized) returned: trigger_frame.
resize_tail_no_frame(s) == [s EXCEPT !.active = "none"]
resize_tail(s) == trigger_frame(s)

\* trigger_frame after on_frame returned: the close_requested check.
trigger_frame_tail(s) ==
    LET s0 == Touch(s)
    IN IF s0.close_requested
       THEN LET s1 == [s0 EXCEPT !.close_requested = FALSE]
            IN IF s1.ns_window
               THEN view_release([s1 EXCEPT !.ns_window = FALSE])
               ELSE [s1 EXCEPT !.active = "none"]
       ELSE [s0 EXCEPT !.active = "none"]

\* ------------------------------------------------------------- actions

Running == fault = "none"
Idle == active = "none"

\* The resource creations of an open that can fail.
OpenFailures(p) ==
    IF p = "win"
    THEN {"none", "register_class", "create_window", "gl_context"}
    ELSE {"none", "gl_context"}

\* The application opens the window; `opened` is set when the native window
\* exists and Window State is bound to it.
Open ==
    /\ Running /\ ~opened /\ Idle /\ open_failure = "none"
    /\ \E failure \in OpenFailures(platform) :
          Set(IF platform = "win" THEN open(S, failure) ELSE init(S, failure))

\* One of the messages `msgs` reaches wnd_proc, at top level or nested in a
\* handler call.
WinDeliver(msgs) ==
    /\ Running /\ platform = "win" /\ nativeAlive
    /\ \E msg \in msgs :
          /\ msg = "WM_TIMER" => frame_timer
          /\ msg = "WM_CLOSE" => opened
          /\ Set(wnd_proc(S, msg, 0, 0))

WinMessage == WinDeliver(InputMessages)

\* The frame timer's WM_TIMER is delivered.
WinTick == WinDeliver({"WM_TIMER"})

\* The message pump dispatches a queued BV_WINDOW_MUST_CLOSE.
WinDeliverPosted ==
    /\ Running /\ platform = "win" /\ nativeAlive /\ posted > 0
    /\ Set(wnd_proc([S EXCEPT !.posted = @ - 1], "BV_WINDOW_MUST_CLOSE", 0, 0))

\* The message and wparam Windows sends for a button going down or up.
ButtonMessage(b, down) ==
    CASE b = "Left" -> IF down THEN "WM_LBUTTONDOWN" ELSE "WM_LBUTTONUP"
      [] b = "Middle" -> IF down THEN "WM_MBUTTONDOWN" ELSE "WM_MBUTTONUP"
      [] b = "Right" -> IF down THEN "WM_RBUTTONDOWN" ELSE "WM_RBUTTONUP"
      [] OTHER -> IF down THEN "WM_XBUTTONDOWN" ELSE "WM_XBUTTONUP"

ButtonWparam(b) ==
    CASE b = "Back" -> XBUTTON1 * 65536
      [] b = "Forward" -> XBUTTON2 * 65536
      [] OTHER -> 0

\* The user presses a button that is up or releases one that is down; the
\* message reaches wnd_proc at top level or nested in a handler call.
WinButton ==
    /\ Running /\ platform = "win" /\ nativeAlive /\ opened
    /\ \E b \in Buttons :
          LET down == b \notin buttonsDown
              held == IF down THEN buttonsDown \cup {b} ELSE buttonsDown \ {b}
          IN /\ down => mouse_button_counter < MaxButtonCounter
             /\ ~down => releaseCalls < MaxReleaseCalls
             /\ Set(wnd_proc([S EXCEPT !.buttonsDown = held],
                             ButtonMessage(b, down), ButtonWparam(b), 0))

\* The user moves the cursor: WM_MOUSEMOVE with the new position.
WinMouseMove ==
    /\ Running /\ platform = "win" /\ nativeAlive /\ opened
    /\ \E pos \in CursorPositions :
          /\ pos # cursor.native
          /\ Set(wnd_proc([S EXCEPT !.cursor.native = pos], "WM_MOUSEMOVE", 0,
                          MAKEPOINT(pos)))

\* A keyboard message reaches wnd_proc, at top level or nested; the
\* collaborator will return Some or None for it.
WinKey ==
    /\ Running /\ platform = "win" /\ nativeAlive /\ opened
    /\ \E msg \in KeyMessages, some \in BOOLEAN :
          Set(wnd_proc([S EXCEPT !.key = [msg |-> msg, some |-> some,
                                          def |-> FALSE]],
                       msg, 0, 0))

\* The user or the host gives the window a new client size: WM_SIZE.
WinSize ==
    /\ Running /\ platform = "win" /\ nativeAlive /\ opened
    /\ \E size \in PhysicalSizes :
          /\ size # client
          /\ Set(wnd_proc([S EXCEPT !.client = size], "WM_SIZE", 0,
                          MAKELPARAM(size)))

\* The top-level window moves to a monitor with another DPI: WM_DPICHANGED
\* with the new DPI in both words of wparam.
WinDpiChange ==
    /\ Running /\ platform = "win" /\ ~parented /\ nativeAlive /\ opened
    /\ \E dpi \in Dpis :
          /\ dpi # system_dpi
          /\ Set(wnd_proc([S EXCEPT !.system_dpi = dpi], "WM_DPICHANGED",
                          dpi + 65536 * dpi, 0))

\* The window is destroyed from outside: the host destroys the parent window,
\* which destroys the embedded child (WM_DESTROY, WM_NCDESTROY, no WM_CLOSE).
WinNativeDestroy ==
    /\ Running /\ platform = "win" /\ parented /\ nativeAlive /\ opened
    /\ Set(DestroyWindow(S))

\* WindowHandle::close() on Windows.
WinHandleClose ==
    /\ Running /\ platform = "win" /\ parented /\ opened /\ Idle
    /\ closeCalls < MaxCloseCalls
    /\ LET s == [S EXCEPT !.closeCalls = @ + 1]
           c == [NoCall EXCEPT !.op = "close", !.n = s.closeCalls,
                               !.open = s.is_open_flag,
                               !.gone = ~s.nativeAlive \/ s.slot = NULL]
       IN IF s.handle_raw
          THEN Set([s EXCEPT !.handle_raw = TakeHandle(@),
                             !.posted = IF s.nativeAlive /\ @ < MaxPosted
                                        THEN @ + 1 ELSE @,
                             !.call = [c EXCEPT !.native = TRUE]])
          ELSE Set([s EXCEPT !.call = c])

\* WindowHandle::close() on macOS.
MacHandleClose ==
    /\ Running /\ platform = "mac" /\ parented /\ opened /\ Idle
    /\ closeCalls < MaxCloseCalls
    /\ LET s == [S EXCEPT !.closeCalls = @ + 1]
           c == [NoCall EXCEPT !.op = "close", !.n = s.closeCalls,
                               !.open = s.is_open_flag,
                               !.gone = ~s.nativeAlive \/ s.slot = NULL]
       IN IF s.handle_raw
          THEN Set(stop_and_free(
                     [s EXCEPT !.handle_raw = TakeHandle(@),
                               !.call = [c EXCEPT !.native = TRUE,
                                                  !.deref = TRUE,
                                                  !.handler = ~c.gone,
                                                  !.panic = c.gone]],
                     "mac_willclose_handle"))
          ELSE Set([s EXCEPT !.call = c])

\* WindowHandle::resize(size) on macOS.
MacHandleResize ==
    /\ Running /\ platform = "mac" /\ parented /\ opened /\ Idle
    /\ \E size \in LogicalSizes :
       LET c == [NoCall EXCEPT !.op = "resize", !.open = is_open_flag,
                               !.gone = ~nativeAlive \/ slot = NULL,
                               !.size = size]
           info == from_logical_size(LogicalOf(size), resize_scale_factor(S))
       IN IF handle_raw
          THEN LET c1 == [c EXCEPT !.native = TRUE, !.deref = TRUE,
                                   !.handler = ~c.gone]
               IN IF ~nativeAlive
                  THEN Set([S EXCEPT !.call = [c1 EXCEPT !.panic = TRUE],
                                     !.fault = "dangling_view"])
                  ELSE IF slot = NULL
                  THEN Set([S EXCEPT !.call = [c1 EXCEPT !.panic = TRUE],
                                     !.fault = "null_state"])
                  ELSE Set([S EXCEPT !.call = c1, !.active = "mac_resized",
                                     !.lastResized = info,
                                     !.event = "Resized"])
          ELSE Set([S EXCEPT !.call = c])

\* WindowHandle::resize(size) on macOS, called while a handler call of the
\* window is in progress (the handler reaches the owner of the handle):
\* from_field hands out a second &mut WindowState with no check, and
\* trigger_event enters the handler a second time.
MacResizeInHandler ==
    /\ Running /\ platform = "mac" /\ parented /\ opened /\ ~Idle
    /\ inner = "none" /\ handle_raw /\ nativeAlive /\ slot # NULL
    /\ \E size \in LogicalSizes :
       LET c == [NoCall EXCEPT !.op = "resize", !.open = is_open_flag,
                               !.size = size, !.native = TRUE,
                               !.deref = TRUE, !.handler = TRUE]
           info == from_logical_size(LogicalOf(size), resize_scale_factor(S))
       IN Set([Touch(S) EXCEPT !.call = c, !.inner = "mac_resized",
                               !.lastResized = info, !.event = "Resized"])

\* The frame timer fires from the run loop.
MacTimerFire ==
    /\ Running /\ platform = "mac" /\ frame_timer /\ Idle
    /\ Set(trigger_frame(S))

\* The native view is released by its owner (the host drops the parent view,
\* the user closes the window).
MacViewRelease ==
    /\ Running /\ platform = "mac" /\ opened /\ nativeAlive /\ Idle
    /\ Set(view_release(S))

\* The handler calls Window::close() from inside on_event / on_frame.
HandlerCallsClose ==
    /\ Running /\ ~Idle
    /\ LET s == [S EXCEPT !.handlerClosed = @ \/ (S.slot # NULL /\ S.nativeAlive)]
       IN IF platform = "mac"
          THEN Set([s EXCEPT !.close_requested = TRUE])
          ELSE /\ nativeAlive /\ posted < MaxPosted
               /\ Set([s EXCEPT !.posted = @ + 1])

\* The handler call in progress returns; the callback that made it finishes.
HandlerReturn ==
    /\ Running /\ ~Idle
    /\ CASE inner = "mac_resized" ->
              Set([Touch(S) EXCEPT !.inner = "mac_frame", !.frameSeen = TRUE])
         [] inner = "mac_frame" ->
              Set([trigger_frame_tail(S) EXCEPT !.active = active,
                                                !.inner = "none"])
         [] active = "win_event" ->
              Set([S EXCEPT !.borrow = "none", !.active = "none"])
         [] active = "win_frame" ->
              Set([S EXCEPT !.borrow = "none", !.active = "none"])
         [] active = "win_close" ->
              Set(DefWindowProcW([S EXCEPT !.borrow = "none",
                                           !.active = "none"], "WM_CLOSE"))
         [] active = "mac_frame" -> Set(trigger_frame_tail(S))
         [] active = "mac_resized" -> Set(resize_tail(S))
         [] active = "mac_willclose_release" ->
              Set([stop_and_free_tail(S) EXCEPT !.nativeAlive = FALSE])
         [] active = "mac_willclose_handle" ->
              Set([stop_and_free_tail(S) EXCEPT
                       !.handle_close_requested = TRUE])

\* GetMessageW(&msg, hwnd, 0, 0) returns -1 once the HWND is invalid, which is
\* the only exit of open_blocking's loop.
PumpBreaksAlways(alive) == TRUE
PumpBreaks(alive) == ~alive

\* Window::open_blocking returns: the message loop breaks (Windows), app.run()
\* returns after app.stop_ (macOS).
OpenBlockingReturn ==
    /\ Running /\ ~parented /\ opened /\ Idle /\ ~returned
    /\ IF platform = "win" THEN PumpBreaks(nativeAlive) ELSE app_stopped
    /\ Set([S EXCEPT !.returned = TRUE])

InitWindow ==
    /\ platform \in Platforms
    /\ parented \in BOOLEAN
    /\ opened = FALSE
    /\ slot = NULL
    /\ stateAlloc = FALSE
    /\ borrow = "none"
    /\ handle_raw = TRUE
    /\ is_open_flag = parented
    /\ handle_close_requested = FALSE
    /\ close_requested = FALSE
    /\ ns_window = (platform = "mac" /\ ~parented)
    /\ ns_app = (platform = "mac" /\ ~parented)
    /\ app_stopped = FALSE
    /\ frame_timer = FALSE
    /\ posted = 0
    /\ nativeAlive = FALSE
    /\ window_class = FALSE
    /\ active = "none"
    /\ willClose = 0
    /\ teardowns = 0
    /\ destroyCalls = 0
    /\ frees = 0
    /\ closeCalls = 0
    /\ call = NoCall
    /\ frameSeen = FALSE
    /\ lateCallback = FALSE
    /\ staleAccess = FALSE
    /\ handlerClosed = FALSE
    /\ returned = FALSE
    /\ mouse_button_counter = 0
    /\ captured = FALSE
    /\ buttonsDown = {}
    /\ releaseCalls = 0
    /\ scale_policy \in (IF platform = "win" THEN ScalePolicies ELSE {SystemScaleFactor})
    /\ options_size \in (IF platform = "win" THEN LogicalSizes ELSE {<<2, 1>>})
    /\ system_dpi \in (IF platform = "win" THEN Dpis ELSE {96, 192})
    /\ view_in_window \in (IF platform = "mac" /\ parented THEN BOOLEAN ELSE {platform = "mac"})
    /\ window_info = NoInfo
    /\ client = <<0, 0>>
    /\ setPos = <<0, 0>>
    /\ lastResized = NoInfo
    /\ handler_bound = FALSE
    /\ open_failure = "none"
    /\ event = "none"
    /\ timerBeforeSlot = FALSE
    /\ earlyDispatch = FALSE
    /\ key = NoKey
    /\ cursor = NoCursor
    /\ inner = "none"
    /\ fault = "none"

\* Nothing is recorded unless a specification asks for it.
Init == InitWindow /\ log = LogOff

Next ==
    \/ Open
    \/ WinMessage
    \/ WinDeliverPosted
    \/ WinNativeDestroy
    \/ WinHandleClose
    \/ MacHandleClose
    \/ MacHandleResize
    \/ MacTimerFire
    \/ MacViewRelease
    \/ HandlerCallsClose
    \/ HandlerReturn
    \/ OpenBlockingReturn

Spec == Init /\ [][Next]_vars

\* Mouse button input on a Windows window: the window opens, buttons go down
\* and up, handler calls return.
MouseInit == Init /\ platform = "win"

MouseNext ==
    \/ Open
    \/ WinButton
    \/ HandlerReturn

MouseSpec == MouseInit /\ [][MouseNext]_vars

\* Keyboard and timer input on a Windows window.
KeyNext ==
    \/ Open
    \/ WinMessage
    \/ WinKey
    \/ HandlerReturn

KeySpec == MouseInit /\ [][KeyNext]_vars

\* The cursor moves over a window that changes monitors.
CursorNext ==
    \/ Open
    \/ WinMouseMove
    \/ WinDpiChange
    \/ HandlerReturn

CursorSpec == MouseInit /\ [][CursorNext]_vars

\* Notifications and the events dispatched for them, recorded on a Windows
\* window.
OrderInit == InitWindow /\ platform = "win" /\ log = LogOn

OrderNext ==
    \/ Open
    \/ WinMessage
    \/ WinSize
    \/ WinDpiChange
    \/ HandlerReturn

OrderSpec == OrderInit /\ [][OrderNext]_vars

\* Calls that arrive while a handler call is in progress.
ReentryNext ==
    \/ Open
    \/ WinMessage
    \/ MacHandleResize
    \/ MacResizeInHandler
    \/ MacTimerFire
    \/ HandlerCallsClose
    \/ HandlerReturn

ReentrySpec == Init /\ [][ReentryNext]_vars

\* Mouse moves and size changes, with coordinates on both sides of 0 and
\* a width above 32767.
DecodeNext ==
    \/ Open
    \/ WinMouseMove
    \/ WinSize
    \/ HandlerReturn

DecodeSpec == MouseInit /\ [][DecodeNext]_vars

\* Window geometry: the window opens, is resized, changes DPI; handler calls
\* return and frames run.
GeomNext ==
    \/ Open
    \/ WinSize
    \/ WinDpiChange
    \/ MacHandleResize
    \/ MacTimerFire
    \/ HandlerReturn

GeomSpec == Init /\ [][GeomNext]_vars

\* Fair delivery: a handler call returns, timer ticks and posted messages are
\* delivered, the blocked open_blocking call resumes when it can.
FairSpec ==
    /\ Spec
    /\ WF_vars(HandlerReturn)
    /\ WF_vars(WinTick)
    /\ WF_vars(MacTimerFire)
    /\ WF_vars(WinDeliverPosted)
    /\ WF_vars(OpenBlockingReturn)

\* ------------------------------------------------- WindowHandle queries

\* WindowHandle::is_open(): a load of the shared flag.
is_open(s) == s.is_open_flag

\* WindowHandle::raw_window_handle(): "empty" or the native pointer.
raw_window_handle(s) ==
    IF s.platform = "win"
    THEN IF s.handle_raw THEN "hwnd" ELSE "empty"
    ELSE IF s.handle_raw /\ s.is_open_flag THEN "ns_view" ELSE "empty"

\* ------------------------------------------------------------ properties

\* The window has been torn down and no callback is in progress.
TeardownDone ==
    /\ opened /\ active = "none" /\ fault = "none"
    /\ (~nativeAlive \/ slot = NULL)

WillCloseInProgress ==
    active \in {"win_close", "mac_willclose_release", "mac_willclose_handle"}

\* C1: with any number of close requests the close protocol starts at most
\* once, the handler receives WillClose at most once, and the second and later
\* WindowHandle::close() calls make no native call.
C1_CloseAtMostOnce ==
    /\ willClose <= 1
    /\ teardowns <= 1
    /\ (call.op = "close" /\ call.n >= 2) => ~call.native

\* C1 witness: two WindowHandle::close() calls were made and the protocol ran.
C1_Witness ==
    /\ call.op = "close" /\ call.n >= 2 /\ closeCalls >= 2
    /\ willClose = 1 /\ teardowns = 1

\* C2: whenever the native window/view is gone or Window State is freed, the
\* handler has received exactly one WillClose (it came before the release).
C2_ExactlyOneWillCloseBeforeRelease ==
    (opened /\ (~nativeAlive \/ ~stateAlloc)) => willClose = 1

\* C3: while the handler runs on_event(WillClose) the association slot is
\* already null.
C3_SlotNullDuringWillClose == WillCloseInProgress => slot = NULL

\* C4: no native callback touches Window State after the slot was cleared or
\* the block was freed.
C4_NoStaleAccess == ~staleAccess

\* C4 witness: the state was freed after frames had run, and a native
\* callback arrived afterwards and found the slot null.
C4_Witness ==
    /\ frameSeen /\ ~stateAlloc /\ slot = NULL /\ lateCallback
    /\ ~staleAccess

\* C5: Window State is freed at most once, and exactly once when the teardown
\* of the window is complete.
C5_DestroyedExactlyOnce ==
    /\ frees <= 1
    /\ TeardownDone => frees = 1

\* C6: the open-state flag never goes back to true and goes false in the
\* step in which the native window is torn down.
C6_FlagFalseAtTeardown ==
    [][/\ ~is_open_flag => ~is_open_flag'
       /\ (parented /\ nativeAlive /\ ~nativeAlive') => ~is_open_flag']_vars

\* C7: is_open() is true while the window is open and false once the window
\* has been closed or destroyed.
C7_IsOpenTracksWindow ==
    (parented /\ opened) =>
        /\ (nativeAlive /\ slot # NULL) => is_open(S)
        /\ TeardownDone => ~is_open(S)

\* C8: a resize made while the open-state flag is false touches nothing.
C8_ResizeNoopWhenClosed ==
    (call.op = "resize" /\ ~call.open) =>
        /\ ~call.native /\ ~call.deref /\ ~call.handler /\ ~call.panic

\* C9: raw_window_handle() is empty whenever the flag is false or the native
\* window is gone.
C9_RawHandleEmptyWhenClosed ==
    (parented /\ opened /\ (~is_open_flag \/ ~nativeAlive)) =>
        raw_window_handle(S) = "empty"

\* C10: a close() made after the window was torn down by another path
\* dereferences nothing, dispatches nothing and does not fault.
C10_CloseAfterTeardownNoop ==
    (call.op = "close" /\ call.gone) =>
        /\ ~call.deref /\ ~call.handler /\ ~call.panic

\* A WindowHandle::close() call is on the stack (macOS: inside stop_and_free).
InHandleClose == active = "mac_willclose_handle"

\* C11: no step taken by or inside a WindowHandle::close() call frees the
\* Window State block.
C11_CloseNeverFreesState ==
    [][(closeCalls' # closeCalls \/ InHandleClose) =>
           stateAlloc' = stateAlloc]_vars

\* C12: wnd_proc never acquires Window State by a panicking borrow, and a
\* message that arrives while an outer callback holds the state starts no
\* handler call and faults nowhere.
C12_TryAcquireOnly ==
    [][/\ fault' # "BorrowMutError"
       /\ (platform = "win" /\ borrow = "mut") =>
              /\ active' \in {active, "none"}
              /\ willClose' = willClose
              /\ frameSeen' = frameSeen
              /\ fault' = "none"]_vars

\* A frame-timer tick is delivered.
TickStep == WinTick \/ MacTimerFire

\* The window is running and no callback holds Window State.
TickReady == opened /\ slot # NULL /\ borrow = "none" /\ active = "none"

\* A close request waits to be observed.
ClosePending == IF platform = "mac" THEN close_requested ELSE posted > 0

\* C13: a tick on a running, free window enters on_frame, and when on_frame
\* returns with a close request pending the close protocol starts.
C13_TickFrameThenCloseCheck ==
    [][/\ (TickStep /\ TickReady) =>
              (active' \in {"win_frame", "mac_frame"} /\ fault' = "none")
       /\ (active \in {"win_frame", "mac_frame"} /\ ClosePending
              /\ active' # active) =>
              teardowns' = teardowns + 1]_vars

\* The window has reached Destroyed through the close protocol.
DestroyedByProtocol == willClose = 1 /\ slot = NULL /\ ~stateAlloc

\* C14: once the handler has called Window::close() on the running window,
\* the window eventually reaches Destroyed (WillClose delivered, slot
\* cleared, Window State destroyed).
C14_HandlerCloseLeadsToDestroyed == handlerClosed ~> DestroyedByProtocol

\* The native window of a blocking open is gone and no callback is running.
BlockingDestroyed ==
    ~parented /\ opened /\ ~nativeAlive /\ active = "none" /\ fault = "none"

C16_CaptureHeldUntilLastUp ==
    /\ [](buttonsDown # {} => captured)
    /\ [][/\ releaseCalls' # releaseCalls =>
                 (buttonsDown # {} /\ buttonsDown' = {}
                     /\ releaseCalls' = releaseCalls + 1)
          /\ (buttonsDown # {} /\ buttonsDown' = {}) =>
                 releaseCalls' = releaseCalls + 1]_vars

\* A WM_DPICHANGED is delivered while Window State is free and the window
\* tracks the system DPI.
DpiReady ==
    /\ slot # NULL /\ borrow = "none"
    /\ scale_policy.kind = "SystemScaleFactor"

\* C17: a WM_DPICHANGED under SystemScaleFactor asks SetWindowPos for the
\* current logical size times the new scale and, the client size changing,
\* hands the handler a Resized event with the new scale, the unchanged
\* logical size and the matching physical size.
C17_DpiChangeResizes ==
    [][(WinDpiChange /\ DpiReady) =>
          LET expected == from_logical_size(window_info.logical, system_dpi')
          IN /\ setPos' = expected.physical
             /\ expected.physical # client => lastResized' = expected]_vars

\* WindowHandle::resize is called on an open window.
ResizeCallStep == MacHandleResize /\ handle_raw /\ nativeAlive /\ slot # NULL

\* The scale factor in force: the backing scale of the window the view is in.
CurrentScale == IF view_in_window THEN system_dpi ELSE 96

\* C18: resize(size) on an open window enters on_event(Resized) with a
\* WindowInfo of that size at the current scale; when that call returns
\* on_frame is entered, and when on_frame returns the resize is over.
C18_ResizeThenOneFrame ==
    [][/\ ResizeCallStep =>
              /\ active' = "mac_resized"
              /\ lastResized'.logical = LogicalOf(call'.size)
              /\ lastResized'.scale = CurrentScale
       /\ (active = "mac_resized" /\ active' # active) =>
              (active' = "mac_frame" /\ fault' = "none")
       /\ (active = "mac_frame" /\ parented /\ active' # active) =>
              active' = "none"]_vars

\* C18 witness: the frame that follows the Resized event of a resize call.
C18_Witness ==
    /\ platform = "mac" /\ call.op = "resize" /\ call.handler
    /\ active = "mac_frame" /\ lastResized.logical = LogicalOf(call.size)

\* physical = logical * scale, rounded to the nearest pixel.
Consistent(info) ==
    \A i \in 1..2 :
        /\ 2 * 576 * info.physical[i] - 576 <= 2 * info.logical[i] * info.scale
        /\ 2 * info.logical[i] * info.scale < 2 * 576 * info.physical[i] + 576

\* C19: the WindowInfo stored in Window State and the one carried by the
\* last Resized event satisfy physical = round(logical * scale), and the
\* Resized event of resize(n) carries n at the scale in force at the call.
C19_PhysicalIsLogicalTimesScale ==
    /\ [](Consistent(window_info) /\ Consistent(lastResized))
    /\ [][ResizeCallStep =>
              /\ lastResized'.logical = LogicalOf(call'.size)
              /\ lastResized'.scale = CurrentScale
              /\ Consistent(lastResized')]_vars

\* C19 witness: resize(3, 3) at scale 2.0 was seen as 6 x 6 physical pixels.
C19_Witness ==
    /\ call.op = "resize" /\ call.size = <<3, 3>>
    /\ lastResized.scale = 192 /\ lastResized.physical = <<6, 6>>

\* C20: when class registration, window creation or GL-context creation
\* failed in open, no Window State was built, the slot holds no pointer, no
\* frame timer is armed and the handler is bound to nothing.
C20_FailedOpenBuildsNothing ==
    open_failure # "none" =>
        /\ ~stateAlloc /\ slot = NULL /\ ~frame_timer /\ ~handler_bound

SizeReady == slot # NULL /\ borrow = "none"

\* C22: a WM_SIZE handled with Window State available stores a WindowInfo of
\* the message's physical size at the scale stored before (logical =
\* physical / scale) and enters on_event(Resized) with that stored value.
C22_SizeStoresAndDispatches ==
    [][(WinSize /\ SizeReady) =>
          /\ window_info'.physical = client'
          /\ window_info'.scale = window_info.scale
          /\ \A i \in 1..2 :
                window_info'.logical[i] * window_info.scale = 576 * client'[i]
          /\ active' = "win_event" /\ event' = "Resized"
          /\ lastResized' = window_info']_vars

\* C22 witness: the handler is in on_event(Resized) for a 4 x 4 client area
\* at scale 1.5.
C22_Witness ==
    /\ active = "win_event" /\ event = "Resized"
    /\ lastResized = window_info /\ window_info.scale = 144
    /\ window_info.physical = <<4, 4>> /\ client = <<4, 4>>

\* The native window or view announces that it is about to be destroyed.
DestroyNotification == WinNativeDestroy \/ MacViewRelease

C24_SlotBoundBeforeTimer ==
    /\ ~timerBeforeSlot
    /\ ~earlyDispatch
    /\ (frame_timer /\ nativeAlive) => slot # NULL

\* C24 witness: the window is open, bound and ticking; the WM_SIZE sent by
\* the SetWindowPos at the end of open was the first message dispatched.
C24_Witness ==
    /\ platform = "win" /\ opened /\ slot # NULL /\ frame_timer
    /\ active = "win_event" /\ event = "Resized" /\ ~frameSeen
    /\ lastResized.physical = setPos

\* C25: a keyboard message handled with Window State free enters
\* on_event(Keyboard) exactly when the collaborator returned an event, and
\* reaches DefWindowProcW exactly when it is WM_SYSKEYDOWN.
C25_KeyboardDispatch ==
    [][(WinKey /\ TickReady) =>
          /\ fault' = "none"
          /\ (active' = "win_event" /\ event' = "Keyboard") <=> key'.some
          /\ key'.def <=> (key'.msg = "WM_SYSKEYDOWN")]_vars

\* C29: a WM_TIMER or keyboard message that finds Window State free takes
\* the state once and completes its dispatch: on_frame is entered for the
\* tick, on_event(Keyboard) for a key with an event, and nothing panics.
C29_SingleAcquisition ==
    [][/\ (WinTick /\ TickReady) =>
              (fault' = "none" /\ active' = "win_frame" /\ borrow' = "mut")
       /\ (WinKey /\ TickReady) =>
              /\ fault' = "none"
              /\ key'.some => (active' = "win_event" /\ borrow' = "mut")]_vars

\* C28: while the handler runs on_event(WillClose) the frame timer is
\* stopped, and once WillClose has been dispatched no step enters the
\* handler again.
C28_TimerStoppedBeforeWillClose ==
    /\ [](WillCloseInProgress => ~frame_timer)
    /\ [][willClose >= 1 => active' \in {active, "none"}]_vars

\* C30: mouse_button_counter equals the number of buttons currently held.
C30_CounterCountsHeldButtons == mouse_button_counter = Cardinality(buttonsDown)

\* A WM_MOUSEMOVE is delivered while Window State is bound and free.
MoveReady == slot # NULL /\ borrow = "none"

\* C27: a WM_MOUSEMOVE handled with Window State available dispatches
\* CursorMoved with the native position divided by the scale stored in
\* Window State at that step; a WM_DPICHANGED that stores a new scale leaves
\* the position of an earlier CursorMoved as it was.
C27_CursorUsesStoredScale ==
    [][/\ (WinMouseMove /\ MoveReady) =>
              /\ active' = "win_event" /\ event' = "CursorMoved"
              /\ \A i \in 1..2 :
                    cursor'.logical[i] * window_info.scale
                        = 576 * cursor'.native[i]
       /\ WinDpiChange => cursor' = cursor]_vars

\* C27 witness: the window went to 144 DPI after it opened, and the cursor
\* then moved to (-3, 1): CursorMoved carries (-2, 2/3).
C27_Witness ==
    /\ platform = "win" /\ lastResized = NoInfo /\ setPos = window_info.physical
    /\ window_info.scale = 144 /\ system_dpi = 144
    /\ active = "win_event" /\ event = "CursorMoved"
    /\ cursor = [native |-> <<-3, 1>>, logical |-> <<-12, 4>>]

\* The event that the branch of notification `msg` dispatches.
Announces(msg, e) ==
    CASE msg = "WM_MOUSEMOVE" -> e = "CursorMoved"
      [] msg = "WM_SIZE" -> e = "Resized"
      [] msg = "WM_CLOSE" -> e = "WillClose"
      [] msg \in ButtonDownMessages -> e = "ButtonPressed"
      [] msg \in ButtonUpMessages -> e = "ButtonReleased"
      [] msg \in KeyMessages -> e = "Keyboard"
      [] OTHER -> FALSE

\* C26: the events the handler received are, in order, events of distinct
\* delivered notifications taken in delivery order: every event belongs to
\* a recorded notification of its kind, and a later event belongs to a
\* later notification.
C26_EventsInNativeOrder ==
    /\ \A i \in 1..Len(log.events) :
          /\ log.events[i].note \in 1..Len(log.notes)
          /\ Announces(log.notes[log.events[i].note], log.events[i].kind)
    /\ \A i, j \in 1..Len(log.events) :
          i < j => log.events[i].note < log.events[j].note

\* C26 witness: after the WM_SIZE of window creation (Window State not yet
\* bound) a WM_MOUSEMOVE was dispatched, a WM_SIZE that arrived inside that
\* handler call was skipped, and a later WM_CLOSE was dispatched.
C26_Witness ==
    /\ log.notes = <<"WM_SIZE", "WM_MOUSEMOVE", "WM_SIZE", "WM_CLOSE">>
    /\ log.events = <<[kind |-> "CursorMoved", note |-> 2],
                      [kind |-> "WillClose", note |-> 4]>>
    /\ active = "win_close"

\* The number of handler invocations of the window in progress.
Handlers ==
    (IF active = "none" THEN 0 ELSE 1) + (IF inner = "none" THEN 0 ELSE 1)

\* C31: at most one handler invocation of the window is in progress, and on
\* Windows the one in progress holds the only borrow of Window State.
C31_OneHandlerAtATime ==
    /\ Handlers <= 1
    /\ (platform = "win" /\ active # "none") => borrow = "mut"

\* wnd_proc handed a BV_WINDOW_MUST_CLOSE for this window with the slot null.
LateMustClose == wnd_proc([S EXCEPT !.slot = NULL], "BV_WINDOW_MUST_CLOSE", 0, 0)

\* C32: the BV_WINDOW_MUST_CLOSE branch calls DestroyWindow at most once
\* and the window is destroyed at most once, however many messages were
\* posted; with the slot null the message destroys nothing.
C32_DestroyWindowAtMostOnce ==
    platform = "win" =>
        /\ destroyCalls <= 1 /\ teardowns <= 1
        /\ LateMustClose.destroyCalls = destroyCalls
        /\ LateMustClose.nativeAlive = nativeAlive
        /\ LateMustClose.teardowns = teardowns

\* C32 witness: WindowHandle::close() and Window::close() both posted the
\* message, the first delivery destroyed the window and the second message
\* went with it.
C32_Witness ==
    /\ platform = "win" /\ call.op = "close" /\ call.native /\ handlerClosed
    /\ destroyCalls = 1 /\ teardowns = 1 /\ ~nativeAlive /\ posted = 0

\* C33: once the native window of an opened Windows window is gone
\* (WM_NCDESTROY has been processed), the association slot is null and the
\* window class is unregistered.
C33_NcDestroyClearsSlotAndClass ==
    (platform = "win" /\ opened /\ ~nativeAlive) =>
        (slot = NULL /\ ~window_class)

\* C34: with a fixed ScaleFactor policy a WM_DPICHANGED leaves the stored
\* WindowInfo as it was, asks for no window size and enters no handler call.
C34_FixedScaleIgnoresDpiChange ==
    [][(WinDpiChange /\ scale_policy.kind = "ScaleFactor") =>
          /\ window_info' = window_info
          /\ setPos' = setPos /\ client' = client
          /\ active' = active /\ borrow' = borrow
          /\ log'.events = log.events /\ lastResized' = lastResized]_vars

\* C34 witness: a window with the fixed factor 1.5 was opened and then moved
\* to a 192 DPI monitor: WM_DPICHANGED was delivered, no event followed.
C34_Witness ==
    /\ platform = "win" /\ scale_policy.kind = "ScaleFactor"
    /\ log.notes = <<"WM_SIZE", "WM_DPICHANGED">> /\ log.events = <<>>
    /\ system_dpi = 192 /\ window_info.scale = 144
    /\ setPos = <<0, 0>> /\ active = "none"

\* C35: a handled WM_MOUSEMOVE reads x and y as signed 16-bit words (a
\* position left of or above the client area stays negative), and a handled
\* WM_SIZE reads width and height as unsigned words (a width above 32767
\* stays positive).
C35_SignedMoveUnsignedSize ==
    [][/\ (WinMouseMove /\ MoveReady) =>
              \A i \in 1..2 :
                 /\ (cursor'.native[i] < 0) <=> (cursor'.logical[i] < 0)
                 /\ cursor'.logical[i] * window_info.scale
                        = 576 * cursor'.native[i]
       /\ (WinSize /\ SizeReady) =>
              /\ window_info'.physical = client'
              /\ \A i \in 1..2 : window_info'.logical[i] > 0]_vars

\* C35 witness: the client area is 40000 pixels wide and the captured cursor
\* is at (2, -3), above it: CursorMoved carries a negative y.
C35_Witness ==
    /\ window_info.physical = <<40000, 2>> /\ lastResized = window_info
    /\ active = "win_event" /\ event = "CursorMoved"
    /\ cursor.native = <<2, -3>> /\ cursor.logical[2] < 0

====
